---------------------------- MODULE Spec2Model ----------------------------
(***************************************************************************)
(* Model of src/algo.py, the Upstox options dashboard: the indicators      *)
(* (ema, bollinger), the candle fetch, the two signal detectors and the    *)
(* polling loop that runs them for every selected instrument.              *)
(*                                                                         *)
(* A candle is modelled by its close, the only column the detectors read;  *)
(* a DataFrame is the sequence of its closes, oldest first.  Prices are    *)
(* integers and every indicator value is kept exact: an EMA value is a     *)
(* reduced fraction, a Bollinger band is kept as the window's sums and     *)
(* compared with a close by an exact integer inequality.                   *)
(***************************************************************************)
EXTENDS Integers, Sequences, FiniteSets, TLC

VARIABLES
    run_algo,   \* st.session_state.run_algo
    symbols,    \* the multiselect's value, in selection order
    use_ema,    \* checkbox "Activate EMA Pullback Algo"
    use_bb,     \* checkbox "Activate Bollinger Reversal Algo"
    pc,         \* position of the script run
    idx,        \* position of the for loop in symbols (1-based)
    resp,       \* the upstream's answer to the fetch made last
    htf,        \* this iteration's higher-timeframe frame, or NoDf
    ltf,        \* this iteration's lower-timeframe frame, or NoDf
    signal,     \* this iteration's local variable signal
    calls,      \* detector invocations of this iteration, in order
    err,        \* the exception this iteration raised, or NoErr
    display,    \* what the current script run has put on the page
    args,       \* pure-function specifications: the inputs drawn
    result      \* pure-function specifications: what the function gave

vars == <<run_algo, symbols, use_ema, use_bb, pc, idx, resp, htf, ltf,
          signal, calls, err, display, args, result>>

loopVars == <<run_algo, symbols, use_ema, use_bb, pc, idx, resp, htf, ltf,
              signal, calls, err, display>>

pureVars == <<args, result>>

-----------------------------------------------------------------------------
(* Bounds and program constants *)

\* Highest close of the candles the polling loop fetches.
MaxClose == 2

\* Top price level of the frames given to the detectors on their own.
TopClose == 12

\* Longest series, and highest value, given to ema on its own.
MaxLen == 3

MaxValue == 3

\* Most instruments selected at once.
MaxSymbols == 2

\* bollinger(df, period=20)
BBPeriod == 20

\* ema(htf.close, 20), ema(ltf.close, 20)
FastSpan == 20

\* ema(htf.close, 50), ema(ltf.close, 50)
SlowSpan == 50

\* fetch_candles(..., count=100)
DefaultCount == 100

\* r.status_code != 200
HTTP_OK == 200

\* the detectors read iloc[-2] and iloc[-1]
Lookback == 2

-----------------------------------------------------------------------------
(* Exact arithmetic *)

Abs(x) == IF x < 0 THEN -x ELSE x

RECURSIVE Gcd(_, _)
Gcd(a, b) == IF b = 0 THEN a ELSE Gcd(b, a % b)

\* The fraction n/d (d > 0) in lowest terms.
Rat(n, d) ==
    LET g == Gcd(Abs(n), d)
    IN  [n |-> n \div g, d |-> d \div g]

RatInt(x) == [n |-> x, d |-> 1]

RatAdd(a, b) == Rat(a.n * b.d + b.n * a.d, a.d * b.d)

RatMul(a, b) == Rat(a.n * b.n, a.d * b.d)

RatLt(a, b) == a.n * b.d < b.n * a.d

\* close < value and close > value for an integer close
IntLtRat(c, a) == c * a.d < a.n

IntGtRat(c, a) == c * a.d > a.n

-----------------------------------------------------------------------------
(* Indicators *)

\* span=period: the smoothing factor 2/(period+1)
Alpha(period) == Rat(2, period + 1)

\* One step of the average: (1 - alpha) * y + alpha * x
EwmStep(y, x, period) ==
    LET a == Alpha(period)
    IN  RatAdd(RatMul([n |-> a.d - a.n, d |-> a.d], y), RatMul(a, RatInt(x)))

\* adjust=False: y[1] = x[1], y[t] = (1 - alpha) * y[t-1] + alpha * x[t].
\* done holds y[1..t-1] and last is y[t-1].
RECURSIVE Ewm(_, _, _, _)
Ewm(series, period, done, last) ==
    IF Len(done) = Len(series) THEN done
    ELSE LET y == EwmStep(last, series[Len(done) + 1], period)
         IN  Ewm(series, period, Append(done, y), y)

\* series.ewm(span=period, adjust=False).mean(), with alpha = 1/period
EwmStepWrongAlpha(y, x, period) ==
    RatAdd(RatMul(Rat(period - 1, period), y), RatMul(Rat(1, period), RatInt(x)))

RECURSIVE EwmWrongAlpha(_, _, _, _)
EwmWrongAlpha(series, period, done, last) ==
    IF Len(done) = Len(series) THEN done
    ELSE LET y == EwmStepWrongAlpha(last, series[Len(done) + 1], period)
         IN  EwmWrongAlpha(series, period, Append(done, y), y)

emaWrongAlpha(series, period) ==
    IF series = << >> THEN << >>
    ELSE EwmWrongAlpha(series, period, << RatInt(series[1]) >>, RatInt(series[1]))

\* series.ewm(span=period, adjust=False).mean()
ema(series, period) ==
    IF series = << >> THEN << >>
    ELSE Ewm(series, period, << RatInt(series[1]) >>, RatInt(series[1]))


\* The function f as a table: every value is computed once, when the table
\* is built, and not each time the function is applied.
Stored(f) == f @@ << >>

\* Sum of f(series[j]) over lo..hi, with f the identity or the square.
RECURSIVE SumRange(_, _, _, _)
SumRange(series, lo, hi, squared) ==
    IF lo > hi THEN 0
    ELSE (IF squared THEN series[hi] * series[hi] ELSE series[hi])
         + SumRange(series, lo, hi - 1, squared)

\* close.rolling(period) at position i: NaN until the window is full, else
\* the window's size, sum and sum of squares, from which mean and sample
\* standard deviation follow:
\*   mean = s/n,  std^2 = (n*q - s*s) / (n*(n-1)).
Rolling(close, period) ==
    Stored([i \in 1..Len(close) |->
               IF i < period
               THEN [nan |-> TRUE, n |-> period, s |-> 0, q |-> 0]
               ELSE [nan |-> FALSE, n |-> period,
                     s |-> SumRange(close, i - period + 1, i, FALSE),
                     q |-> SumRange(close, i - period + 1, i, TRUE)]])

\* n*(c - mean), and the squares of n*(c - mean) and of n*2*std scaled alike
Dev(c, w) == w.n * c - w.s

DevSq(c, w) == Dev(c, w) * Dev(c, w) * (w.n - 1)

BandSq(w) == 4 * w.n * (w.n * w.q - w.s * w.s)

\* close < mean - 2*std ; a comparison with NaN is False
LtLower(c, w) == ~w.nan /\ Dev(c, w) < 0 /\ DevSq(c, w) > BandSq(w)

\* close > mean - 2*std
GtLower(c, w) ==
    /\ ~w.nan
    /\ \/ Dev(c, w) > 0
       \/ Dev(c, w) = 0 /\ BandSq(w) > 0
       \/ Dev(c, w) < 0 /\ DevSq(c, w) < BandSq(w)

\* close > mean + 2*std
GtUpper(c, w) == ~w.nan /\ Dev(c, w) > 0 /\ DevSq(c, w) > BandSq(w)

\* close < mean + 2*std
LtUpper(c, w) ==
    /\ ~w.nan
    /\ \/ Dev(c, w) < 0
       \/ Dev(c, w) = 0 /\ BandSq(w) > 0
       \/ Dev(c, w) > 0 /\ DevSq(c, w) < BandSq(w)

\* df["bb_upper"] = ma + 2 * std ; df["bb_lower"] = ma - 2 * std.  Both
\* columns hold the window they are computed from.
bollinger(df, period) ==
    [close    |-> df.close,
     ema20    |-> df.ema20,
     ema50    |-> df.ema50,
     bb_upper |-> Rolling(df.close, period),
     bb_lower |-> Rolling(df.close, period)]

\* htf["ema20"] = ema(htf.close, 20) ; htf["ema50"] = ema(htf.close, 50)
AnnotateHtf(close) ==
    [close |-> close,
     ema20 |-> ema(close, FastSpan),
     ema50 |-> ema(close, SlowSpan)]

\* ltf["ema20"], ltf["ema50"], then ltf = bollinger(ltf)
AnnotateLtf(close) ==
    bollinger([close |-> close,
               ema20 |-> ema(close, FastSpan),
               ema50 |-> ema(close, SlowSpan)], BBPeriod)

-----------------------------------------------------------------------------
(* Candle fetch *)

\* python's s[-n:]
LastN(s, n) ==
    IF n = 0 \/ n >= Len(s) THEN s ELSE SubSeq(s, Len(s) - n + 1, Len(s))

Returned(df) == [ok |-> TRUE, df |-> df, error |-> ""]

Raised(msg) == [ok |-> FALSE, df |-> << >>, error |-> msg]

\* fetch_candles(token, instrument_key, interval, count) on the upstream's
\* answer r: requests.get raised, or a response with a status and a body.
fetch_candles(r, count) ==
    IF r.raised THEN Raised("Timeout")
    ELSE IF r.status # HTTP_OK THEN Raised("HTTP " \o ToString(r.status))
    ELSE IF ~r.has_data \/ ~r.has_candles THEN Raised("No candle data returned")
    ELSE Returned(LastN(r.candles, count))

-----------------------------------------------------------------------------
(* Signal detectors *)

None == "None"

Signals == {"BUY_CE", "BUY_PE"}

Value(v) == [raised |-> FALSE, value |-> v]

IndexError == [raised |-> TRUE, value |-> None]

Last(s) == s[Len(s)]

Prev(s) == s[Len(s) - 1]

\* algo_ema_pullback without the EMA50 fallback
algo_ema_pullbackNoSlow(h, l) ==
    IF Len(l.close) < Lookback THEN IndexError
    ELSE IF Len(h.close) < 1 THEN IndexError
    ELSE IF /\ RatLt(Last(h.ema50), Last(h.ema20))
            /\ IntLtRat(Prev(l.close), Prev(l.ema20))
            /\ IntGtRat(Last(l.close), Last(l.ema20))
         THEN Value("BUY_CE")
    ELSE IF /\ RatLt(Last(h.ema20), Last(h.ema50))
            /\ IntGtRat(Prev(l.close), Prev(l.ema20))
            /\ IntLtRat(Last(l.close), Last(l.ema20))
         THEN Value("BUY_PE")
    ELSE Value(None)

\* algo_ema_pullback(htf, ltf): ltf.iloc[-2] and htf[...].iloc[-1] raise
\* IndexError on a frame that is too short.
algo_ema_pullback(h, l) ==
    IF Len(l.close) < Lookback THEN IndexError
    ELSE IF Len(h.close) < 1 THEN IndexError
    ELSE IF /\ RatLt(Last(h.ema50), Last(h.ema20))
            /\ \/ /\ IntLtRat(Prev(l.close), Prev(l.ema20))
                  /\ IntGtRat(Last(l.close), Last(l.ema20))
               \/ /\ IntLtRat(Prev(l.close), Prev(l.ema50))
                  /\ IntGtRat(Last(l.close), Last(l.ema50))
         THEN Value("BUY_CE")
    ELSE IF /\ RatLt(Last(h.ema20), Last(h.ema50))
            /\ \/ /\ IntGtRat(Prev(l.close), Prev(l.ema20))
                  /\ IntLtRat(Last(l.close), Last(l.ema20))
               \/ /\ IntGtRat(Prev(l.close), Prev(l.ema50))
                  /\ IntLtRat(Last(l.close), Last(l.ema50))
         THEN Value("BUY_PE")
    ELSE Value(None)

\* algo_bb_reversal reading the current band at both positions
algo_bb_reversalCurrBand(df) ==
    IF Len(df.close) < Lookback THEN IndexError
    ELSE IF /\ LtLower(Prev(df.close), Last(df.bb_lower))
            /\ GtLower(Last(df.close), Last(df.bb_lower))
         THEN Value("BUY_CE")
    ELSE IF /\ GtUpper(Prev(df.close), Last(df.bb_upper))
            /\ LtUpper(Last(df.close), Last(df.bb_upper))
         THEN Value("BUY_PE")
    ELSE Value(None)

\* algo_bb_reversal treating a missing band as crossed
algo_bb_reversalNanFires(df) ==
    IF Len(df.close) < Lookback THEN IndexError
    ELSE IF /\ (Prev(df.bb_lower).nan \/ LtLower(Prev(df.close), Prev(df.bb_lower)))
            /\ (Last(df.bb_lower).nan \/ GtLower(Last(df.close), Last(df.bb_lower)))
         THEN Value("BUY_CE")
    ELSE IF /\ GtUpper(Prev(df.close), Prev(df.bb_upper))
            /\ LtUpper(Last(df.close), Last(df.bb_upper))
         THEN Value("BUY_PE")
    ELSE Value(None)

\* algo_bb_reversal(df): df.iloc[-2] raises IndexError on fewer than 2 rows.
algo_bb_reversal(df) ==
    IF Len(df.close) < Lookback THEN IndexError
    ELSE IF /\ LtLower(Prev(df.close), Prev(df.bb_lower))
            /\ GtLower(Last(df.close), Last(df.bb_lower))
         THEN Value("BUY_CE")
    ELSE IF /\ GtUpper(Prev(df.close), Prev(df.bb_upper))
            /\ LtUpper(Last(df.close), Last(df.bb_upper))
         THEN Value("BUY_PE")
    ELSE Value(None)

-----------------------------------------------------------------------------
(* Inputs *)

\* Closes of the candles the polling loop fetches.
Closes == 1..MaxClose

\* Price levels of the frames given to the detectors on their own: a low
\* pair and a high pair, far enough apart that, one bar after a fall from
\* the top to the bottom level, EMA20 and EMA50 lie on either side of a
\* price one tick under the top.
Levels == {1, 2, TopClose - 1, TopClose}

\* Every series of at most k prices of P.
Tails(P, k) == UNION {[1..t -> P] : t \in 0..k}

\* m bars at price b followed by the bars of tail.
Extend(m, b, tail) ==
    [i \in 1..(m + Len(tail)) |-> IF i <= m THEN b ELSE tail[i - m]]

\* Frames of the polling loop.  Higher timeframe: up to Lookback bars.
\* Lower timeframe: up to Lookback bars, or a flat history of 1, of
\* BBPeriod - 2 or of BBPeriod - 1 bars followed by the Lookback bars the
\* detectors read, so that the bands at the previous bar are missing (3 and
\* BBPeriod bars) or present (BBPeriod + 1 bars).
LoopHtfFrames == Tails(Closes, Lookback)

LoopLtfFrames ==
    Tails(Closes, Lookback) \cup
    {Extend(m, b, t) : m \in {1, BBPeriod - 2, BBPeriod - 1}, b \in Closes,
                       t \in [1..Lookback -> Closes]}

\* Frames given to the detectors on their own.  Lower timeframe: one more
\* free bar before the two the detectors read, alone or after BBPeriod - 2
\* flat bars, so that the lengths BBPeriod - 2 .. BBPeriod + 1 all occur.
DetectHtfFrames == Tails(Closes, Lookback)

DetectLtfFrames ==
    Tails(Levels, Lookback + 1) \cup
    {Extend(BBPeriod - 2, b, t) : b \in Levels, t \in Tails(Levels, Lookback + 1)}

\* Series and periods given to ema on its own.
EmaSeries == UNION {[1..t -> 1..MaxValue] : t \in 1..MaxLen}

EmaPeriods == {1, 2, FastSpan, SlowSpan}

\* The annotated frame of every fetched frame, computed once:
\* htf with ema20 and ema50; ltf with ema20, ema50 and the bands.
AnnotatedHtf ==
    Stored([c \in LoopHtfFrames \cup DetectHtfFrames |-> AnnotateHtf(c)])

AnnotatedLtf ==
    Stored([c \in LoopLtfFrames \cup DetectLtfFrames |-> AnnotateLtf(c)])

\* What the upstream can answer to one request.
NoResp ==
    [raised |-> FALSE, status |-> 0, has_data |-> FALSE,
     has_candles |-> FALSE, candles |-> << >>]

Failures ==
    { [raised |-> TRUE, status |-> 0, has_data |-> FALSE,
       has_candles |-> FALSE, candles |-> << >>],
      [raised |-> FALSE, status |-> 401, has_data |-> FALSE,
       has_candles |-> FALSE, candles |-> << >>],
      [raised |-> FALSE, status |-> HTTP_OK, has_data |-> FALSE,
       has_candles |-> FALSE, candles |-> << >>],
      [raised |-> FALSE, status |-> HTTP_OK, has_data |-> TRUE,
       has_candles |-> FALSE, candles |-> << >>] }

Candles(frames) ==
    { [raised |-> FALSE, status |-> HTTP_OK, has_data |-> TRUE,
       has_candles |-> TRUE, candles |-> c] : c \in frames }

HtfResponses == Failures \cup Candles(LoopHtfFrames)

LtfResponses == Failures \cup Candles(LoopLtfFrames)

\* list(INSTRUMENT_MAP.keys()), in the map's order
INSTRUMENT_KEYS == <<"NIFTY", "BANKNIFTY", "FINNIFTY", "RELIANCE", "INFY", "TCS">>

\* The selections the operator makes: the first k instruments of the map.
SymbolChoices == {SubSeq(INSTRUMENT_KEYS, 1, k) : k \in 0..MaxSymbols}

-----------------------------------------------------------------------------
(* The polling loop *)

NoDf == [has |-> FALSE, close |-> << >>]

Df(close) == [has |-> TRUE, close |-> close]

NoErr == ""

NoArgs == [series |-> << >>, period |-> 0, htf |-> << >>, ltf |-> << >>]

NoResult == [fn |-> "none", raised |-> FALSE, value |-> None, out |-> << >>]

Call(fn, lens, r) ==
    [fn |-> fn, lens |-> lens, raised |-> r.raised, value |-> r.value]

\* signal = None ; if use_bb: signal = algo_bb_reversal(ltf) ; then
\* if not signal and use_ema: ... (Bollinger first)
RunDetectorsBBFirst(ue, ub, h, l) ==
    LET b  == algo_bb_reversal(l)
        cb == Call("algo_bb_reversal", <<Len(l.close)>>, b)
        e  == algo_ema_pullback(h, l)
        ce == Call("algo_ema_pullback", <<Len(h.close), Len(l.close)>>, e)
    IN  IF ub /\ b.raised
        THEN [raised |-> TRUE, signal |-> None, calls |-> <<cb>>]
        ELSE IF ub /\ b.value # None
        THEN [raised |-> FALSE, signal |-> b.value, calls |-> <<cb>>]
        ELSE IF ue
        THEN [raised |-> e.raised, signal |-> e.value,
              calls |-> (IF ub THEN <<cb>> ELSE << >>) \o <<ce>>]
        ELSE [raised |-> FALSE, signal |-> None,
              calls |-> IF ub THEN <<cb>> ELSE << >>]

\* if use_ema: ... elif use_bb: ... (Bollinger only when EMA is switched off)
RunDetectorsElif(ue, ub, h, l) ==
    LET b  == algo_bb_reversal(l)
        cb == Call("algo_bb_reversal", <<Len(l.close)>>, b)
        e  == algo_ema_pullback(h, l)
        ce == Call("algo_ema_pullback", <<Len(h.close), Len(l.close)>>, e)
    IN  IF ue
        THEN [raised |-> e.raised, signal |-> e.value, calls |-> <<ce>>]
        ELSE IF ub
        THEN [raised |-> b.raised, signal |-> b.value, calls |-> <<cb>>]
        ELSE [raised |-> FALSE, signal |-> None, calls |-> << >>]

\* signal = None
\* if use_ema: signal = algo_ema_pullback(htf, ltf)
\* if not signal and use_bb: signal = algo_bb_reversal(ltf)
RunDetectors(ue, ub, h, l) ==
    LET e  == algo_ema_pullback(h, l)
        ce == Call("algo_ema_pullback", <<Len(h.close), Len(l.close)>>, e)
        b  == algo_bb_reversal(l)
        cb == Call("algo_bb_reversal", <<Len(l.close)>>, b)
        first == IF ue THEN <<ce>> ELSE << >>
    IN  IF ue /\ e.raised
        THEN [raised |-> TRUE, signal |-> None, calls |-> first]
        ELSE IF ue /\ e.value # None
        THEN [raised |-> FALSE, signal |-> e.value, calls |-> first]
        ELSE IF ub
        THEN [raised |-> b.raised, signal |-> b.value, calls |-> first \o <<cb>>]
        ELSE [raised |-> FALSE, signal |-> None, calls |-> first]

Entry(sym, kind) == [sym |-> sym, kind |-> kind]

InCycle == {"loop", "fetch_ltf", "detect", "show", "except"}

Fresh ==
    /\ resp' = NoResp
    /\ htf' = NoDf
    /\ ltf' = NoDf
    /\ signal' = None
    /\ calls' = << >>
    /\ err' = NoErr

LoopInit ==
    /\ run_algo = FALSE
    /\ symbols = <<"NIFTY">>
    /\ use_ema = TRUE
    /\ use_bb = TRUE
    /\ pc = "idle"
    /\ idx = 1
    /\ resp = NoResp
    /\ htf = NoDf
    /\ ltf = NoDf
    /\ signal = None
    /\ calls = << >>
    /\ err = NoErr
    /\ display = << >>

\* The operator changes the settings while the algo is stopped.  (A widget
\* touched during a run restarts the script; only STOP is modelled there.)
ChangeSettings ==
    /\ pc = "idle"
    /\ symbols' \in SymbolChoices
    /\ use_ema' \in BOOLEAN
    /\ use_bb' \in BOOLEAN
    /\ UNCHANGED <<run_algo, pc, idx, resp, htf, ltf, signal, calls, err,
                   display, args, result>>

\* START ALGO: the flag is set and the script run enters the loop.
StartAlgo ==
    /\ pc = "idle"
    /\ run_algo' = TRUE
    /\ pc' = "loop"
    /\ idx' = 1
    /\ display' = << >>
    /\ Fresh
    /\ UNCHANGED <<symbols, use_ema, use_bb, args, result>>

\* STOP ALGO: the click ends the script run in progress; the next run
\* clears the flag and skips the loop.
StopAlgo ==
    /\ run_algo
    /\ run_algo' = FALSE
    /\ pc' = "idle"
    /\ idx' = 1
    /\ display' = << >>
    /\ Fresh
    /\ UNCHANGED <<symbols, use_ema, use_bb, args, result>>

\* htf = fetch_candles(token, spot_key, htf_tf)
FetchHtf ==
    /\ pc = "loop"
    /\ idx <= Len(symbols)
    /\ \E r \in HtfResponses :
        LET f == fetch_candles(r, DefaultCount)
        IN  /\ resp' = r
            /\ IF f.ok
               THEN htf' = Df(f.df) /\ pc' = "fetch_ltf" /\ err' = NoErr
               ELSE htf' = NoDf /\ pc' = "except" /\ err' = f.error
    /\ UNCHANGED <<run_algo, symbols, use_ema, use_bb, idx, ltf, signal,
                   calls, display, args, result>>

\* ltf = fetch_candles(token, spot_key, ltf_tf)
FetchLtf ==
    /\ pc = "fetch_ltf"
    /\ \E r \in LtfResponses :
        LET f == fetch_candles(r, DefaultCount)
        IN  /\ resp' = r
            /\ IF f.ok
               THEN ltf' = Df(f.df) /\ pc' = "detect" /\ err' = NoErr
               ELSE ltf' = NoDf /\ pc' = "except" /\ err' = f.error
    /\ UNCHANGED <<run_algo, symbols, use_ema, use_bb, idx, htf, signal,
                   calls, display, args, result>>

\* The indicators are added to both frames and the detectors run.
Detect ==
    /\ pc = "detect"
    /\ \E h \in {AnnotatedHtf[htf.close]}, l \in {AnnotatedLtf[ltf.close]} :
        \E d \in {RunDetectors(use_ema, use_bb, h, l)} :
           /\ calls' = d.calls
           /\ signal' = d.signal
           /\ IF d.raised
              THEN pc' = "except" /\ err' = "IndexError"
              ELSE pc' = "show" /\ err' = NoErr
    /\ UNCHANGED <<run_algo, symbols, use_ema, use_bb, idx, resp, htf, ltf,
                   display, args, result>>

\* if signal: st.success(...) else: st.write(...)
Show ==
    /\ pc = "show"
    /\ display' = Append(display,
                         Entry(symbols[idx],
                               IF signal # None THEN "success" ELSE "write"))
    /\ idx' = idx + 1
    /\ pc' = "loop"
    /\ Fresh
    /\ UNCHANGED <<run_algo, symbols, use_ema, use_bb, args, result>>

\* try around the whole for loop: the error is shown and the loop is left
ExceptLeavesLoop ==
    /\ pc = "except"
    /\ display' = Append(display, Entry(symbols[idx], "error"))
    /\ idx' = idx + 1
    /\ pc' = "sleep"
    /\ Fresh
    /\ UNCHANGED <<run_algo, symbols, use_ema, use_bb, args, result>>

\* no except clause: the exception ends the script run
ExceptUncaught ==
    /\ pc = "except"
    /\ display' = Append(display, Entry(symbols[idx], "error"))
    /\ pc' = "crashed"
    /\ Fresh
    /\ UNCHANGED <<run_algo, symbols, use_ema, use_bb, idx, args, result>>

\* except Exception as e: st.error(...) ; the for loop goes on
Except ==
    /\ pc = "except"
    /\ display' = Append(display, Entry(symbols[idx], "error"))
    /\ idx' = idx + 1
    /\ pc' = "loop"
    /\ Fresh
    /\ UNCHANGED <<run_algo, symbols, use_ema, use_bb, args, result>>

\* The for loop is over: time.sleep(60)
Sleep ==
    /\ pc = "loop"
    /\ idx > Len(symbols)
    /\ pc' = "sleep"
    /\ UNCHANGED <<run_algo, symbols, use_ema, use_bb, idx, resp, htf, ltf,
                   signal, calls, err, display, args, result>>

\* st.rerun(): the script runs again from the top, the flag still set
Rerun ==
    /\ pc = "sleep"
    /\ pc' = "loop"
    /\ idx' = 1
    /\ display' = << >>
    /\ Fresh
    /\ UNCHANGED <<run_algo, symbols, use_ema, use_bb, args, result>>

Script == FetchHtf \/ FetchLtf \/ Detect \/ Show \/ Except \/ Sleep \/ Rerun

Init == LoopInit /\ args = NoArgs /\ result = NoResult

Next ==
    \/ ChangeSettings
    \/ StartAlgo
    \/ StopAlgo
    \/ FetchHtf
    \/ FetchLtf
    \/ Detect
    \/ Show
    \/ Except
    \/ Sleep
    \/ Rerun

Spec == Init /\ [][Next]_vars

\* A script run that can take a step does: a fetch returns or raises within
\* its timeout, the sleep ends, and everything else is straight-line code.
FairSpec == Spec /\ WF_vars(Script)

-----------------------------------------------------------------------------
(* The functions on their own *)

\* ema applied to one series and one period
EmaInit ==
    /\ LoopInit
    /\ args \in {[series |-> x, period |-> p, htf |-> << >>, ltf |-> << >>] :
                    x \in EmaSeries, p \in EmaPeriods}
    /\ result = NoResult

EmaApply ==
    /\ result.fn = "none"
    /\ result' = [fn |-> "ema", raised |-> FALSE, value |-> None,
                  out |-> ema(args.series, args.period)]
    /\ UNCHANGED <<args, loopVars>>

SpecEma == EmaInit /\ [][EmaApply]_vars

\* each detector applied to one pair of annotated frames
DetectInit ==
    /\ LoopInit
    /\ args \in {[series |-> << >>, period |-> 0, htf |-> h, ltf |-> l] :
                    h \in DetectHtfFrames, l \in DetectLtfFrames}
    /\ result = NoResult

ApplyPullback ==
    /\ result.fn = "none"
    /\ \E r \in {algo_ema_pullback(AnnotatedHtf[args.htf], AnnotatedLtf[args.ltf])} :
         result' = [fn |-> "algo_ema_pullback", raised |-> r.raised,
                    value |-> r.value, out |-> << >>]
    /\ UNCHANGED <<args, loopVars>>

ApplyReversal ==
    /\ result.fn = "none"
    /\ \E r \in {algo_bb_reversal(AnnotatedLtf[args.ltf])} :
         result' = [fn |-> "algo_bb_reversal", raised |-> r.raised,
                    value |-> r.value, out |-> << >>]
    /\ UNCHANGED <<args, loopVars>>

DetectNext == ApplyPullback \/ ApplyReversal

SpecDetect == DetectInit /\ [][DetectNext]_vars

-----------------------------------------------------------------------------
(* Properties of the polling loop *)

\* Both frames of this iteration were fetched and the detectors have run.
Detected == pc \in {"show", "except"} /\ htf.has /\ ltf.has

CalledReversal == \E i \in 1..Len(calls) : calls[i].fn = "algo_bb_reversal"

C2_BollingerFallback ==
    Detected =>
        \A h \in {AnnotatedHtf[htf.close]}, l \in {AnnotatedLtf[ltf.close]} :
            \A e \in {algo_ema_pullback(h, l)}, b \in {algo_bb_reversal(l)} :
                /\ (use_bb /\ (~use_ema \/ (~e.raised /\ e.value = None)))
                     => IF b.raised THEN pc = "except"
                        ELSE pc = "show" /\ signal = b.value
                /\ (~use_ema /\ ~use_bb)
                     => pc = "show" /\ signal = None /\ calls = << >>

\* EMA Pullback is enabled and returned none, and the Bollinger signal is
\* the instrument's signal.
C2_Witness ==
    /\ pc = "show"
    /\ use_ema /\ use_bb
    /\ Len(calls) = 2
    /\ calls[1].value = None
    /\ signal = "BUY_PE"

\* C3: in a cycle the instruments are processed in selection order and each
\* one processed has exactly one outcome on the page (a signal, a no-signal
\* notice or an error); the wait is reached only with an outcome for every
\* selected instrument, whichever of them failed.
C3_OneOutcomePerInstrument ==
    /\ pc \in InCycle \cup {"sleep"}
         => /\ idx \in 1..(Len(symbols) + 1)
            /\ Len(display) = idx - 1
            /\ \A k \in 1..Len(display) :
                 /\ display[k].sym = symbols[k]
                 /\ display[k].kind \in {"success", "write", "error"}
    /\ pc \in {"fetch_ltf", "detect", "show", "except"} => idx <= Len(symbols)
    /\ pc = "sleep" => Len(display) = Len(symbols)

\* The first instrument failed and the second was still evaluated.
C3_Witness ==
    /\ pc = "sleep"
    /\ Len(symbols) = 2
    /\ display[1].kind = "error"
    /\ display[2].kind = "success"

\* C4: while the run flag stays set, a cycle in progress reaches the wait,
\* whatever errors its instruments raised, and the wait is followed by a new
\* cycle; the wait is reached only after every selected instrument has been
\* processed.
C4_CyclesRepeat ==
    /\ [](pc \in InCycle /\ run_algo => <>(pc = "sleep" \/ ~run_algo))
    /\ [](pc = "sleep" /\ run_algo => <>((pc = "loop" /\ idx = 1) \/ ~run_algo))
    /\ [](pc = "sleep" => idx = Len(symbols) + 1 /\ Len(display) = Len(symbols))

\* The wait of a cycle in which an instrument raised an error.
C4_Witness ==
    /\ pc = "sleep"
    /\ run_algo
    /\ \E k \in 1..Len(display) : display[k].kind = "error"

\* The fetch made last returned a frame.
FetchReturned == pc \in {"fetch_ltf", "detect"}

LastFrame == IF pc = "fetch_ltf" THEN htf ELSE ltf

\* C5: fetch_candles raises, and returns no empty frame, whenever the
\* upstream answers with a non-success status or has no data, an empty
\* data.candles list included.
C5_FetchFailsExplicitly ==
    FetchReturned =>
        /\ ~resp.raised
        /\ resp.status = HTTP_OK
        /\ resp.has_data /\ resp.has_candles
        /\ resp.candles # << >>
        /\ LastFrame.close # << >>

\* C9: no detector is invoked with a frame of fewer than 2 candles.
C9_DetectorNeverGetsShortFrame ==
    \A i \in 1..Len(calls) :
        \A j \in 1..Len(calls[i].lens) : calls[i].lens[j] >= Lookback

-----------------------------------------------------------------------------
(* Properties of the detectors *)

\* C6: on frames of at least 2 bars algo_ema_pullback returns BUY_CE exactly
\* when the last htf EMA20 is above the last htf EMA50 and the ltf close
\* crossed EMA20 upwards (previous close below the previous EMA20, current
\* close above the current EMA20) or crossed EMA50 upwards; BUY_PE exactly
\* when the last htf EMA20 is below the last htf EMA50 and the close
\* crossed EMA20 or EMA50 downwards; and none otherwise, so always when the
\* two htf averages are equal.
C6_PullbackContract ==
    (/\ result.fn = "algo_ema_pullback"
     /\ Len(args.htf) >= 2
     /\ Len(args.ltf) >= 2)
    => LET h == AnnotatedHtf[args.htf]
           l == AnnotatedLtf[args.ltf]
           f == Last(h.ema20)
           g == Last(h.ema50)
           up == f.n * g.d > g.n * f.d
           down == f.n * g.d < g.n * f.d
           CrossUp(e) == /\ Prev(l.close) * Prev(e).d < Prev(e).n
                         /\ Last(l.close) * Last(e).d > Last(e).n
           CrossDown(e) == /\ Prev(l.close) * Prev(e).d > Prev(e).n
                           /\ Last(l.close) * Last(e).d < Last(e).n
       IN  /\ ~result.raised
           /\ result.value \in Signals \cup {None}
           /\ result.value = "BUY_CE"
                <=> up /\ (CrossUp(l.ema20) \/ CrossUp(l.ema50))
           /\ result.value = "BUY_PE"
                <=> down /\ (CrossDown(l.ema20) \/ CrossDown(l.ema50))
           /\ (~up /\ ~down) => result.value = None

\* BUY_CE from the EMA50 crossing alone: the close did not cross EMA20.
C6_Witness ==
    /\ result.fn = "algo_ema_pullback"
    /\ result.value = "BUY_CE"
    /\ Len(args.htf) >= 2
    /\ LET l == AnnotatedLtf[args.ltf]
       IN  ~(/\ Prev(l.close) * Prev(l.ema20).d < Prev(l.ema20).n
             /\ Last(l.close) * Last(l.ema20).d > Last(l.ema20).n)

\* The bands at the last two bars of frame l, when both are defined.
BandsDefined(close) == Len(close) >= BBPeriod + 1

\* C7: with defined bands algo_bb_reversal returns BUY_CE when the previous
\* close is below the previous lower band and the current close above the
\* current lower band, BUY_PE when the previous close is above the previous
\* upper band and the current close below the current upper band, and none
\* otherwise, so when both closes are strictly inside their bands; the
\* result is decided by the lower-timeframe frame alone.
C7_ReversalContract ==
    (/\ result.fn = "algo_bb_reversal"
     /\ BandsDefined(args.ltf))
    => LET l == AnnotatedLtf[args.ltf]
           p == Prev(l.close)
           c == Last(l.close)
           fromBelow == LtLower(p, Prev(l.bb_lower)) /\ GtLower(c, Last(l.bb_lower))
           fromAbove == GtUpper(p, Prev(l.bb_upper)) /\ LtUpper(c, Last(l.bb_upper))
           inside == /\ GtLower(p, Prev(l.bb_lower)) /\ LtUpper(p, Prev(l.bb_upper))
                     /\ GtLower(c, Last(l.bb_lower)) /\ LtUpper(c, Last(l.bb_upper))
       IN  /\ ~result.raised
           /\ fromBelow => result.value = "BUY_CE"
           /\ fromAbove => result.value = "BUY_PE"
           /\ (~fromBelow /\ ~fromAbove) => result.value = None
           /\ inside => result.value = None

\* A close that was above the upper band has come back under it.
C7_Witness ==
    /\ result.fn = "algo_bb_reversal"
    /\ BandsDefined(args.ltf)
    /\ result.value = "BUY_PE"

\* C10: on a frame of 2 to BBPeriod bars, where the bands at the previous
\* bar are missing, algo_bb_reversal returns none and raises nothing.
C10_MissingBandNoSignal ==
    (/\ result.fn = "algo_bb_reversal"
     /\ Len(args.ltf) >= 2
     /\ Len(args.ltf) <= BBPeriod)
    => ~result.raised /\ result.value = None

\* A frame of exactly BBPeriod bars whose last close left the current band:
\* the current band is defined, the previous one is missing.
C10_Witness ==
    /\ result.fn = "algo_bb_reversal"
    /\ Len(args.ltf) = BBPeriod
    /\ result.value = None
    /\ LET l == AnnotatedLtf[args.ltf]
       IN  /\ Prev(l.bb_lower).nan
           /\ ~Last(l.bb_lower).nan
           /\ GtLower(Last(l.close), Last(l.bb_lower))
           /\ Prev(l.close) < Last(l.close)

-----------------------------------------------------------------------------
(* Properties of ema *)

\* C8: for a series of length >= 1 and a period >= 1, ema returns a series
\* of the same length whose first element is the input's first element and
\* whose element i is a*x[i] + (1-a)*out[i-1] with a = 2/(period+1); a
\* constant input gives that constant at every position.
C8_EmaRecurrence ==
    result.fn = "ema"
    => LET x == args.series
           p == args.period
           y == result.out
       IN  /\ Len(y) = Len(x)
           /\ y[1].n = x[1] * y[1].d
           /\ \A i \in 2..Len(x) :
                y[i] = Rat(2 * x[i] * y[i-1].d + (p - 1) * y[i-1].n,
                           (p + 1) * y[i-1].d)
           /\ (\A i \in 1..Len(x) : x[i] = x[1])
                => \A i \in 1..Len(x) : y[i].n = x[1] * y[i].d

\* A series of three values that move, averaged with span 20.
C8_Witness ==
    /\ result.fn = "ema"
    /\ args.period = FastSpan
    /\ Len(args.series) >= 3
    /\ args.series[1] < args.series[2]
    /\ args.series[3] < args.series[2]
    /\ Len(result.out) = Len(args.series)

=============================================================================
